---- MODULE Spec2Model ----
(***************************************************************************)
(* The kernel session supervisor of the ScriptIt notebook server           *)
(* (Extensions/notebook/notebook_server.py, class KernelManager), the      *)
(* kernel child processes it spawns, and the request threads of the        *)
(* threaded HTTP facade that call it.  Spec is the supervisor under        *)
(* arbitrary callers; NbSpec is the running server: the handlers of        *)
(* NotebookHandler.do_POST, the notebook they share and the supervisor     *)
(* they call.                                                              *)
(*                                                                         *)
(* A thread's position (pc) changes only where the code can block: at the  *)
(* RLock, at a readline() on the child's stdout and at process.wait().     *)
(* Everything the code does between two such points is one action, but     *)
(* where a handler finds a place in the cells list and stores at it later: *)
(* the handlers share the notebook without a lock, so the swap of          *)
(* /api/cell/move (its reads, then its stores) and the insert of           *)
(* /api/cell/add (the search, then the insert) are two actions each; so    *)
(* are the stores of /api/cell/type into the cell it found.                *)
(***************************************************************************)
EXTENDS Integers, Sequences, FiniteSets, TLC

\* ---------------------------------------------------------------- bounds
\* children ever spawned, calls ever issued, requests ever served, and, while
\* the server runs, the times a child goes wrong
MaxChildren == 3
MaxCalls == 3
MaxReqs == 2
MaxFaults == 1

\* two request threads of the ThreadingMixIn server.  The arguments of an
\* execute are drawn when the call gets the lock: until then nothing reads them
Threads == {1, 2}
Children == 1..MaxChildren
None == 0
CellIds == {"c1", "c2"}
\* "def": var x = 42.   "use": print(x). x.   "bad": code that faults (1 / 0)
Codes == {"def", "use", "bad"}

VARIABLES
  process,          \* KernelManager.process: None or the child it refers to
  execution_count,  \* KernelManager.execution_count
  lock,             \* KernelManager.lock, an RLock: its owner and depth
  cstate,           \* per child: "none" | "booting" | "up" | "exited"
  inq,              \* per child: lines written to its stdin, not yet consumed
  outq,             \* per child: lines it wrote to stdout, not yet read
  ccount,           \* per child: the interpreter's execution counter
  cdef,             \* per child: whether x is defined in the interpreter
  nspawned,         \* number of children spawned so far
  faults,           \* times a child may still go wrong (a wrong first line, an
                    \* error or unreadable answer to reset or execute, its
                    \* death); below 0: any number of times
  pc,               \* per thread: where it is in its call
  op,               \* per thread: the operation it is calling
  cell,             \* per thread: cell_id argument of execute
  code,             \* per thread: code argument of execute
  h,                \* per thread: the process object its blocking call is on
  err,              \* per thread: the exception execute's handler caught
  calls,            \* number of calls issued so far
  ret,              \* the call that returned in the latest step, if one did
  hsk,              \* per child: outcome of its startup handshake
  sess,             \* per child: executes answered ok in a row in its session
  crashed,          \* the child that died under the latest execute, if any
  fresh,            \* 0, or 1/2 after a successful reset or restart
  defd,             \* x was defined since the last successful reset or restart
  follows,          \* per thread: crashed and fresh as its execute found them,
                    \* and the child it spawned before sending, if it did
  recov,            \* per thread: respawns attempted by execute's handler
  current_notebook, \* the global current_notebook: its cells list refers to
                    \* cell objects
  current_notebook_path,  \* the global of that name, "" for None
  cellobj,          \* the cell dicts, by object
  files,            \* per path: the document saved there, if any
  uuids,            \* number of uuid4() values drawn so far
  req,              \* per thread: the request its handler is serving
  res,              \* per thread: what the supervisor returned to its handler
  reqs,             \* number of requests served so far
  served            \* the request a handler took up in the latest step

supVars == <<process, execution_count, lock>>
childVars == <<cstate, inq, outq, ccount, cdef, nspawned>>
callVars == <<op, cell, code>>
histVars == <<hsk, sess, crashed, fresh, defd>>
envVars == <<faults>>
nbVars == <<current_notebook, current_notebook_path, cellobj, files, uuids, req, reqs>>
vars == <<supVars, childVars, callVars, pc, h, err, calls, ret, histVars, follows, recov,
          nbVars, res, served, envVars>>

\* ------------------------------------------------------- protocol records
\* a line of the child: x is the "stdout" of an execute reply; "stderr" and
\* "result" are empty unless the child fills them
Line(kind, status, cid, n, x) ==
  [kind |-> kind, status |-> status, cell_id |-> cid, execution_count |-> n, x |-> x,
   stderr |-> "", result |-> ""]

Json(status, cid, n, x) == Line("json", status, cid, n, x)
Garbage == Line("garbage", "", "", 0, "")
Blank == Line("blank", "", "", 0, "")
EOFLine == Line("eof", "", "", 0, "")
Empty == Line("empty", "", "", 0, "")
ReadyLine == Json("kernel_ready", "", 0, "")

Request(action, cid, src) == [action |-> action, cell_id |-> cid, code |-> src]

\* str.strip(): a line holding only the newline, and the "" readline() gives at
\* end of file, both strip to the empty string
Strip(line) == IF line.kind \in {"blank", "eof"} THEN Empty ELSE line

\* `not response`
IsEmpty(s) == s.kind = "empty"

\* json.loads(s) returns (it raises on the empty string and on a bad record)
Parses(s) == s.kind = "json"

\* what a call gave back: a Response, a reset/restart result, or an exception;
\* seq is history: among the results handlers hold, the order the calls
\* returned in
Result(status, cid, n, x, stderr, by, nth) ==
  [status |-> status, cell_id |-> cid, execution_count |-> n, x |-> x,
   stderr |-> stderr, result |-> "", by |-> by, nth |-> nth, seq |-> 0]

NoResult == Result("none", "", 0, "", "", None, 0)
Returned == Result("returned", "", 0, "", "", None, 0)
Raised(e) == Result("raised", "", 0, "", e, None, 0)

\* what the latest step handed to a caller: the thread, its call and the result
Ret(t, r, k) ==
  [t |-> t, op |-> op[t], cell |-> cell[t], code |-> code[t], res |-> r,
   crash |-> follows[t].crash, fresh |-> follows[t].fresh,
   lazy |-> follows[t].lazy, recov |-> k]

NoRet ==
  [t |-> None, op |-> "none", cell |-> "", code |-> "", res |-> NoResult,
   crash |-> None, fresh |-> 0, lazy |-> None, recov |-> 0]

NoFollow == [crash |-> None, fresh |-> 0, lazy |-> None]

\* ------------------------------------------------------- notebook records
\* titles of notebooks, and the paths of files: the one a client names, and
\* for each title the default path made of it
Titles == {"Untitled"}
Paths == {"f"} \cup Titles

\* places for cell dicts, more than the requests can fill
Objs == 1..(3 * MaxReqs + 1)

CellTypes == {"code", "markdown"}

\* `"execution_count": None`
NoCount == -1

\* str(uuid.uuid4()): the n-th value drawn, unlike every other one
Uuid(n) == "u" \o ToString(n)

\* a cell dict; `metadata` is left out, it is {} in every cell the server makes
Cell(id, type, source, outputs, n) ==
  [id |-> id, type |-> type, source |-> source, outputs |-> outputs,
   execution_count |-> n]

\* the cell new_notebook(), /api/cell/add and /api/cell/delete make
EmptyCell(id, type) == Cell(id, type, "", <<>>, NoCount)

\* no cell dict is at this place
NoCell == Cell("", "", "", <<>>, NoCount)

\* a notebook dict: its "nsit_format", its title (of metadata) and its "cells"
\* list; the shape "none" stands for None
Notebook(title, cs) ==
  [shape |-> "notebook", nsit_format |-> "1.0", title |-> title, cells |-> cs]
NoNotebook == [shape |-> "none", nsit_format |-> "", title |-> "", cells |-> <<>>]

\* `if current_notebook:`
Truthy(nb) == nb.shape # "none"

\* what a handler keeps between two calls of the supervisor: the request, and
\* for /api/run-all the list iterator (the list object is the current one, or
\* one replaced since, of which `list` holds what is left), the cell dict
\* being executed and `results` (of each Response its cell_id and status)
NoReq ==
  [kind |-> "none", cell_id |-> "", code |-> "", shared |-> FALSE, list |-> <<>>,
   idx |-> 0, obj |-> None, results |-> <<>>]

\* the request taken up in a step: its path and arguments, and what it found:
\* the length of the cells list and whether a cell has the id it names
NoServed == [kind |-> "none", cell_id |-> "", arg |-> "", n |-> 0, hit |-> FALSE]

\* a step of the supervisor or of a child: no handler touches the notebook
Quiet == served' = NoServed /\ UNCHANGED <<nbVars, res>>

\* a child goes wrong, if it still may
GoesWrong ==
  /\ faults # 0
  /\ faults' = (IF faults < 0 THEN faults ELSE faults - 1)

\* ------------------------------------------------------------- the child
\* readline() on the child's stdout returns: a line is there, or the pipe is
\* at end of file
ReadReady(c) == outq[c] # <<>> \/ cstate[c] = "exited"

ReadLine(c) == IF outq[c] # <<>> THEN Head(outq[c]) ELSE EOFLine

Consume(c) == IF outq[c] # <<>> THEN [outq EXCEPT ![c] = Tail(outq[c])] ELSE outq

\* the lines a starting child may print first
BootLines == {ReadyLine, Json("error", "", 0, ""), Garbage, Blank}

ChildBoot(c) ==
  /\ cstate[c] = "booting"
  /\ \E l \in BootLines :
       /\ outq' = [outq EXCEPT ![c] = Append(outq[c], l)]
       /\ IF l = ReadyLine THEN UNCHANGED faults ELSE GoesWrong
  /\ cstate' = [cstate EXCEPT ![c] = "up"]
  /\ ret' = NoRet
  /\ Quiet
  /\ UNCHANGED <<inq, ccount, cdef, nspawned, supVars, callVars, pc, h, err, calls,
                 histVars, follows, recov>>

\* the child's answer to one execute record: "bad" fails with a message on
\* "stderr", "use" prints x and has its value as "result", "def" shows nothing
ExecAnswer(c, rec) ==
  IF rec.code = "bad"
  THEN [Json("error", rec.cell_id, ccount[c], "") EXCEPT !.stderr = "fault"]
  ELSE IF rec.code = "use"
       THEN [Json("ok", rec.cell_id, ccount[c] + 1, IF cdef[c] THEN "42" ELSE "None")
               EXCEPT !.result = IF cdef[c] THEN "42" ELSE "None"]
       ELSE Json("ok", rec.cell_id, ccount[c] + 1, "")

ChildServe(c) ==
  /\ cstate[c] = "up"
  /\ inq[c] # <<>>
  /\ LET rec == Head(inq[c]) IN
     \/ /\ rec.action = "execute"
        /\ inq' = [inq EXCEPT ![c] = Tail(inq[c])]
        /\ outq' = [outq EXCEPT ![c] = Append(outq[c], ExecAnswer(c, rec))]
        /\ ccount' = [ccount EXCEPT ![c] = IF rec.code = "bad" THEN @ ELSE @ + 1]
        /\ cdef' = [cdef EXCEPT ![c] = @ \/ rec.code = "def"]
        /\ UNCHANGED <<cstate, faults>>
     \/ /\ rec.action = "reset"
        /\ inq' = [inq EXCEPT ![c] = Tail(inq[c])]
        /\ outq' = [outq EXCEPT ![c] = Append(outq[c], Json("reset_ok", "", 0, ""))]
        /\ ccount' = [ccount EXCEPT ![c] = 0]
        /\ cdef' = [cdef EXCEPT ![c] = FALSE]
        /\ UNCHANGED <<cstate, faults>>
     \/ /\ rec.action = "reset"
        /\ inq' = [inq EXCEPT ![c] = Tail(inq[c])]
        /\ outq' = [outq EXCEPT ![c] = Append(outq[c], Json("error", "", 0, ""))]
        /\ GoesWrong
        /\ UNCHANGED <<ccount, cdef, cstate>>
     \/ /\ rec.action = "shutdown"
        /\ inq' = [inq EXCEPT ![c] = <<>>]
        /\ outq' = [outq EXCEPT ![c] = Append(outq[c], Json("shutdown_ok", "", 0, ""))]
        /\ cstate' = [cstate EXCEPT ![c] = "exited"]
        /\ ccount' = [ccount EXCEPT ![c] = 0]
        /\ cdef' = [cdef EXCEPT ![c] = FALSE]
        /\ UNCHANGED faults
     \/ /\ rec.action \in {"execute", "reset"}
        /\ inq' = [inq EXCEPT ![c] = Tail(inq[c])]
        /\ \E l \in {Garbage, Blank} : outq' = [outq EXCEPT ![c] = Append(outq[c], l)]
        /\ GoesWrong
        /\ UNCHANGED <<ccount, cdef, cstate>>
  /\ ret' = NoRet
  /\ Quiet
  /\ UNCHANGED <<nspawned, supVars, callVars, pc, h, err, calls, histVars, follows, recov>>

\* the supervisor or a thread's blocking call still refers to the child
Referenced(c) == process = c \/ \E t \in Threads : h[t] = c

\* the child dies: killed from outside, or a crash of its own.  (The end of a
\* child nothing refers to any more changes nothing the supervisor does.)
ChildKill(c) ==
  /\ cstate[c] \in {"booting", "up"}
  /\ Referenced(c)
  /\ GoesWrong
  /\ cstate' = [cstate EXCEPT ![c] = "exited"]
  /\ inq' = [inq EXCEPT ![c] = <<>>]
  /\ ccount' = [ccount EXCEPT ![c] = 0]
  /\ cdef' = [cdef EXCEPT ![c] = FALSE]
  /\ ret' = NoRet
  /\ Quiet
  /\ UNCHANGED <<outq, nspawned, supVars, callVars, pc, h, err, calls, histVars, follows, recov>>

\* ------------------------------------------------------- the supervisor
Free == [owner |-> None, depth |-> 0]
Held(t, d) == [owner |-> t, depth |-> d]

\* faulty variant: the operation runs without taking the lock
CanAcquire_NoLock(t) == TRUE

\* `with self.lock` on a threading.RLock: free, or already held by the caller
CanAcquire(t) == lock.owner = None \/ lock.owner = t

\* `self.process and self.process.poll() is None`
IsAlive == process # None /\ cstate[process] \in {"booting", "up"}

\* faulty variant: any record that decodes is taken for the ready record
HandshakeOK_AnyRecord(s) == Parses(s)

\* start(), restart() and reset() accept the first line: it is not empty, it
\* decodes, and its status is kernel_ready
HandshakeOK(s) == Parses(s) /\ s.status = "kernel_ready"

\* faulty variant: an error record of the child is taken for a failure
IsFailure_OrErrorRecord(s) == IsEmpty(s) \/ ~Parses(s) \/ s.status = "error"

\* execute() and reset() give up on the line read: `if not response: raise`,
\* or json.loads raises
IsFailure(s) == IsEmpty(s) \/ ~Parses(s)

\* str(e) of the exception the line raises
Detail(s) ==
  IF IsEmpty(s) THEN "noresp" ELSE IF Parses(s) THEN "notready" ELSE "decode"

\* faulty variant: execute() reports the supervisor's own counter
ExecReply_OwnCounter(s, by, nth) ==
  [Result(s.status, s.cell_id, execution_count, s.x, s.stderr, by, nth)
     EXCEPT !.result = s.result]

\* execute() returns the decoded record as it is
ExecReply(s, by, nth) ==
  [Result(s.status, s.cell_id, s.execution_count, s.x, s.stderr, by, nth)
     EXCEPT !.result = s.result]

\* faulty variant: the made-up Response reports success
SyntheticError_Ok(cid, e) == Result("ok", cid, 0, "", e, None, 0)

\* faulty variant: the made-up Response does not carry the caller's cell_id
SyntheticError_NoCell(cid, e) == Result("error", "", 0, "", e, None, 0)

\* the Response execute() makes up after a failure
SyntheticError(cid, e) == Result("error", cid, 0, "", e, None, 0)

\* reset()'s own results
ResetOk == Result("reset_ok", "", 0, "", "", None, 0)
ResetError(e) == Result("error", "", 0, "", e, None, 0)

\* faulty variant: reset() reports reset_ok whatever it read
ResetReply_AlwaysOk(s, by) == Result("reset_ok", "", 0, "", "", by, 0)

\* faulty variant: reset() swallows the failure and reports reset_ok
ResetReply_SwallowsFailure(s, by) ==
  IF IsFailure(s) THEN Result("reset_ok", "", 0, "", "", by, 0)
  ELSE Result(s.status, "", 0, "", "", by, 0)

\* what reset() returns for the line read from a live child
ResetReply(s, by) ==
  IF IsFailure(s) THEN ResetError(Detail(s))
  ELSE Result(s.status, "", 0, "", "", by, 0)

\* f with the entry of child c, which nothing refers to any more, forgotten
Drop(f, c, d) == IF c = None THEN f ELSE [f EXCEPT ![c] = d]

\* the pipes of a child the supervisor let go of are closed and what is known
\* of it is forgotten; whether it still runs (cstate) stays
Forget(c) ==
  /\ inq' = Drop(inq, c, <<>>)
  /\ outq' = Drop(outq, c, <<>>)
  /\ ccount' = Drop(ccount, c, 0)
  /\ cdef' = Drop(cdef, c, FALSE)
  /\ hsk' = Drop(hsk, c, "none")
  /\ sess' = Drop(sess, c, 0)

Keep == UNCHANGED <<inq, outq, ccount, cdef, hsk, sess>>

\* subprocess.Popen succeeds: the new child, and self.process refers to it
Popen(t, cs) ==
  /\ nspawned < MaxChildren
  /\ nspawned' = nspawned + 1
  /\ cstate' = [cs EXCEPT ![nspawned + 1] = "booting"]
  /\ process' = nspawned + 1
  /\ h' = [h EXCEPT ![t] = nspawned + 1]

\* stdin.write(record + "\n"); flush()
Send(c, rec) == [inq EXCEPT ![c] = Append(inq[c], rec)]

\* the thread goes on to its next blocking point, holding the lock
Goto(t, p, d) ==
  /\ pc' = [pc EXCEPT ![t] = p]
  /\ lock' = Held(t, d)
  /\ ret' = NoRet
  /\ Quiet
  /\ UNCHANGED faults

\* history: the place of thread t's return after the returns whose results
\* other handlers still hold
Stamp(t) ==
  LET S == {res[u].seq : u \in Threads \ {t}} IN 1 + CHOOSE m \in S : \A k \in S : k <= m

\* faulty variant: the call returns and the lock stays with the caller
Finish_KeepsLock(t, r, k) ==
  /\ pc' = [pc EXCEPT ![t] = "idle"]
  /\ lock' = Held(t, 1)
  /\ ret' = Ret(t, r, k)
  /\ op' = [op EXCEPT ![t] = "none"]
  /\ cell' = [cell EXCEPT ![t] = ""]
  /\ code' = [code EXCEPT ![t] = ""]
  /\ h' = [h EXCEPT ![t] = None]
  /\ err' = [err EXCEPT ![t] = ""]
  /\ follows' = [follows EXCEPT ![t] = NoFollow]
  /\ recov' = [recov EXCEPT ![t] = 0]
  /\ res' = (IF req[t].kind = "none" THEN res
             ELSE [res EXCEPT ![t] = [r EXCEPT !.seq = Stamp(t)]])
  /\ served' = NoServed
  /\ UNCHANGED <<nbVars, faults>>

\* the call returns r (or raises): the `with` block is left, the lock is
\* released, and the thread is back in its handler, which gets r if it has
\* more to do
Finish(t, r, k) ==
  /\ pc' = [pc EXCEPT ![t] = "idle"]
  /\ lock' = Free
  /\ ret' = Ret(t, r, k)
  /\ op' = [op EXCEPT ![t] = "none"]
  /\ cell' = [cell EXCEPT ![t] = ""]
  /\ code' = [code EXCEPT ![t] = ""]
  /\ h' = [h EXCEPT ![t] = None]
  /\ err' = [err EXCEPT ![t] = ""]
  /\ follows' = [follows EXCEPT ![t] = NoFollow]
  /\ recov' = [recov EXCEPT ![t] = 0]
  /\ res' = (IF req[t].kind = "none" THEN res
             ELSE [res EXCEPT ![t] = [r EXCEPT !.seq = Stamp(t)]])
  /\ served' = NoServed
  /\ UNCHANGED <<nbVars, faults>>

\* process.wait(timeout) ran out and process.kill() ended the child; or the
\* child had exited in time
AfterWait(c) ==
  IF cstate[c] = "exited" THEN cstate ELSE [cstate EXCEPT ![c] = "exited"]

\* a request arrives and its handler thread calls an operation of the
\* supervisor: it is at the `with self.lock` of that operation
Call(t) ==
  /\ pc[t] = "idle"
  /\ calls < MaxCalls
  /\ calls' = calls + 1
  /\ \E o \in {"start", "stop", "restart", "reset", "execute"} :
       op' = [op EXCEPT ![t] = o]
  /\ pc' = [pc EXCEPT ![t] = "acquire"]
  /\ ret' = NoRet
  /\ Quiet
  /\ UNCHANGED faults
  /\ UNCHANGED <<supVars, childVars, cell, code, h, err, histVars, follows, recov>>

\* ---- start()
\* faulty variant: start() spawns without looking whether a child runs
StartBegin_NoCheck(t) ==
  /\ pc[t] = "acquire" /\ op[t] = "start"
  /\ CanAcquire(t)
  /\ Popen(t, cstate)
  /\ Forget(process)
  /\ Goto(t, "start_read", 1)
  /\ UNCHANGED <<callVars, err, follows, recov>>
  /\ UNCHANGED <<execution_count, calls, crashed, fresh, defd>>

StartBegin(t) ==
  /\ pc[t] = "acquire" /\ op[t] = "start"
  /\ CanAcquire(t)
  /\ \/ /\ IsAlive
        /\ Finish(t, Returned, 0)
        /\ Keep
        /\ UNCHANGED <<process, cstate, nspawned>>
     \/ /\ ~IsAlive
        /\ Popen(t, cstate)
        /\ Forget(process)
        /\ Goto(t, "start_read", 1)
        /\ UNCHANGED <<callVars, err, follows, recov>>
     \/ /\ ~IsAlive
        /\ Finish(t, Raised("popen"), 0)
        /\ Keep
        /\ UNCHANGED <<process, cstate, nspawned>>
  /\ UNCHANGED <<execution_count, calls, crashed, fresh, defd>>

StartRead(t) ==
  /\ pc[t] = "start_read"
  /\ ReadReady(h[t])
  /\ LET ready == Strip(ReadLine(h[t])) IN
     /\ outq' = Consume(h[t])
     /\ hsk' = [hsk EXCEPT ![h[t]] = IF HandshakeOK(ready) THEN "ok" ELSE "failed"]
     /\ Finish(t, IF HandshakeOK(ready) THEN Returned ELSE Raised(Detail(ready)), 0)
  /\ UNCHANGED <<process, execution_count, cstate, inq, ccount, cdef, nspawned,
                 calls, sess, crashed, fresh, defd>>

\* ---- stop()
StopBegin(t) ==
  /\ pc[t] = "acquire" /\ op[t] = "stop"
  /\ CanAcquire(t)
  /\ \/ /\ IsAlive
        /\ inq' = Send(process, Request("shutdown", "", ""))
        /\ h' = [h EXCEPT ![t] = process]
        /\ Goto(t, "stop_wait", 1)
        /\ UNCHANGED <<process, outq, ccount, cdef, hsk, sess,
                       callVars, err, follows, recov>>
     \/ /\ ~IsAlive
        /\ process' = None
        /\ Forget(process)
        /\ Finish(t, Returned, 0)
  /\ UNCHANGED <<execution_count, cstate, nspawned, calls, crashed, fresh, defd>>

StopWait(t) ==
  /\ pc[t] = "stop_wait"
  /\ cstate' = AfterWait(h[t])
  /\ Forget(h[t])
  /\ process' = None
  /\ Finish(t, Returned, 0)
  /\ UNCHANGED <<execution_count, nspawned, calls, crashed, fresh, defd>>

\* ---- restart()
RestartBegin(t) ==
  /\ pc[t] = "acquire" /\ op[t] = "restart"
  /\ CanAcquire(t)
  /\ \/ /\ IsAlive
        /\ inq' = Send(process, Request("shutdown", "", ""))
        /\ h' = [h EXCEPT ![t] = process]
        /\ Goto(t, "restart_wait", 1)
        /\ UNCHANGED <<process, execution_count, cstate, nspawned,
                       outq, ccount, cdef, hsk, sess, callVars, err, follows, recov>>
     \/ /\ ~IsAlive
        /\ execution_count' = 0
        /\ Popen(t, cstate)
        /\ Forget(process)
        /\ Goto(t, "restart_read", 1)
        /\ UNCHANGED <<callVars, err, follows, recov>>
     \/ /\ ~IsAlive
        /\ execution_count' = 0
        /\ process' = None
        /\ Forget(process)
        /\ Finish(t, Raised("popen"), 0)
        /\ UNCHANGED <<cstate, nspawned>>
  /\ UNCHANGED <<calls, crashed, fresh, defd>>

RestartWait(t) ==
  /\ pc[t] = "restart_wait"
  /\ Forget(h[t])
  /\ execution_count' = 0
  /\ \/ /\ Popen(t, AfterWait(h[t]))
        /\ Goto(t, "restart_read", 1)
        /\ UNCHANGED <<callVars, err, follows, recov>>
     \/ /\ cstate' = AfterWait(h[t])
        /\ process' = None
        /\ Finish(t, Raised("popen"), 0)
        /\ UNCHANGED nspawned
  /\ UNCHANGED <<calls, crashed, fresh, defd>>

RestartRead(t) ==
  /\ pc[t] = "restart_read"
  /\ ReadReady(h[t])
  /\ LET ready == Strip(ReadLine(h[t])) IN
     IF HandshakeOK(ready)
     THEN /\ outq' = Consume(h[t])
          /\ hsk' = [hsk EXCEPT ![h[t]] = "ok"]
          /\ Finish(t, Returned, 0)
          /\ fresh' = (IF defd THEN 2 ELSE 1)
          /\ defd' = FALSE
          /\ UNCHANGED <<process, inq, ccount, cdef, sess>>
     ELSE /\ process' = None
          /\ Forget(h[t])
          /\ Finish(t, Raised(Detail(ready)), 0)
          /\ UNCHANGED <<fresh, defd>>
  /\ UNCHANGED <<execution_count, cstate, nspawned, calls, crashed>>

\* ---- reset()
ResetBegin(t) ==
  /\ pc[t] = "acquire" /\ op[t] = "reset"
  /\ CanAcquire(t)
  /\ \/ /\ IsAlive
        /\ inq' = Send(process, Request("reset", "", ""))
        /\ h' = [h EXCEPT ![t] = process]
        /\ Goto(t, "reset_read", 1)
        /\ UNCHANGED <<process, execution_count, cstate, nspawned,
                       outq, ccount, cdef, hsk, sess, callVars, err, follows, recov>>
     \/ /\ ~IsAlive
        /\ execution_count' = 0
        /\ Popen(t, cstate)
        /\ Forget(process)
        /\ Goto(t, "reset_spawn_read", 1)
        /\ UNCHANGED <<callVars, err, follows, recov>>
     \/ /\ ~IsAlive
        /\ execution_count' = 0
        /\ process' = None
        /\ Forget(process)
        /\ Finish(t, ResetError("popen"), 0)
        /\ UNCHANGED <<cstate, nspawned>>
  /\ UNCHANGED <<calls, crashed, fresh, defd>>

ResetSpawnRead(t) ==
  /\ pc[t] = "reset_spawn_read"
  /\ ReadReady(h[t])
  /\ LET ready == Strip(ReadLine(h[t])) IN
     IF HandshakeOK(ready)
     THEN /\ outq' = Consume(h[t])
          /\ hsk' = [hsk EXCEPT ![h[t]] = "ok"]
          /\ Finish(t, ResetOk, 0)
          /\ fresh' = (IF defd THEN 2 ELSE 1)
          /\ defd' = FALSE
          /\ UNCHANGED <<process, inq, ccount, cdef, sess>>
     ELSE /\ process' = None
          /\ Forget(h[t])
          /\ Finish(t, ResetError(Detail(ready)), 0)
          /\ UNCHANGED <<fresh, defd>>
  /\ UNCHANGED <<execution_count, cstate, nspawned, calls, crashed>>

ResetRead(t) ==
  /\ pc[t] = "reset_read"
  /\ ReadReady(h[t])
  /\ LET response == Strip(ReadLine(h[t]))
         reply == ResetReply(response, h[t])
     IN
     /\ outq' = Consume(h[t])
     /\ execution_count' = (IF IsEmpty(response) THEN execution_count ELSE 0)
     /\ Finish(t, reply, 0)
     /\ sess' = [sess EXCEPT ![h[t]] = IF reply.status = "reset_ok" THEN 0 ELSE -1]
     /\ IF reply.status = "reset_ok"
        THEN /\ fresh' = (IF defd THEN 2 ELSE 1)
             /\ defd' = FALSE
        ELSE UNCHANGED <<fresh, defd>>
  /\ UNCHANGED <<process, cstate, inq, ccount, cdef, nspawned, calls, hsk, crashed>>

\* ---- execute(cell_id, code)
\* the arguments of the call: those of the handler that makes it, or any
ExecArgs(t) ==
  IF req[t].kind = "none" THEN CellIds \X Codes
  ELSE {<<req[t].cell_id, req[t].code>>}

ExecBegin(t) ==
  /\ pc[t] = "acquire" /\ op[t] = "execute"
  /\ CanAcquire(t)
  /\ \E a \in ExecArgs(t) :
     LET c == a[1]
         k == a[2]
     IN
       /\ cell' = [cell EXCEPT ![t] = c]
       /\ code' = [code EXCEPT ![t] = k]
       /\ \/ /\ IsAlive
             /\ inq' = Send(process, Request("execute", c, k))
             /\ h' = [h EXCEPT ![t] = process]
             /\ UNCHANGED <<process, cstate, nspawned, outq, ccount, cdef, hsk, sess>>
             /\ Goto(t, "exec_read", 1)
          \/ /\ ~IsAlive
             /\ Popen(t, cstate)
             /\ Forget(process)
             /\ Goto(t, "exec_pre_read", 2)
  /\ follows' = [follows EXCEPT ![t] =
                   [crash |-> crashed, fresh |-> fresh,
                    lazy |-> IF IsAlive THEN None ELSE nspawned + 1]]
  /\ crashed' = None
  /\ fresh' = 0
  /\ UNCHANGED <<execution_count, calls, defd, op, err, recov>>

\* execute() finds the child dead and Popen fails: start() raises outside
\* the try block
ExecBeginFail(t) ==
  /\ pc[t] = "acquire" /\ op[t] = "execute"
  /\ CanAcquire(t)
  /\ ~IsAlive
  /\ process' = None
  /\ Forget(process)
  /\ Finish(t, Raised("popen"), 0)
  /\ crashed' = None
  /\ fresh' = 0
  /\ UNCHANGED <<execution_count, calls, defd, cstate, nspawned>>

\* faulty variant: execute() reports the death it found instead of sending
ExecPreRead_SurfacesDeath(t) ==
  /\ pc[t] = "exec_pre_read"
  /\ ReadReady(h[t])
  /\ LET ready == Strip(ReadLine(h[t])) IN
     /\ outq' = Consume(h[t])
     /\ hsk' = [hsk EXCEPT ![h[t]] = IF HandshakeOK(ready) THEN "ok" ELSE "failed"]
     /\ Finish(t, IF HandshakeOK(ready) THEN SyntheticError(cell[t], "dead")
                  ELSE Raised(Detail(ready)), 0)
  /\ UNCHANGED <<process, execution_count, cstate, inq, ccount, cdef, nspawned,
                 calls, sess, crashed, fresh, defd>>

\* the start() of line 137: its handshake, then the record is written
ExecPreRead(t) ==
  /\ pc[t] = "exec_pre_read"
  /\ ReadReady(h[t])
  /\ LET ready == Strip(ReadLine(h[t])) IN
     /\ outq' = Consume(h[t])
     /\ hsk' = [hsk EXCEPT ![h[t]] = IF HandshakeOK(ready) THEN "ok" ELSE "failed"]
     /\ IF HandshakeOK(ready)
        THEN /\ inq' = Send(process, Request("execute", cell[t], code[t]))
             /\ h' = [h EXCEPT ![t] = process]
             /\ Goto(t, "exec_read", 1)
             /\ UNCHANGED <<callVars, err, follows, recov>>
        ELSE /\ Finish(t, Raised(Detail(ready)), 0)
             /\ UNCHANGED inq
  /\ UNCHANGED <<process, execution_count, cstate, ccount, cdef, nspawned,
                 calls, sess, crashed, fresh, defd>>

ExecRead(t) ==
  /\ pc[t] = "exec_read"
  /\ ReadReady(h[t])
  /\ LET response == Strip(ReadLine(h[t]))
         nth == IF response.status = "ok" /\ sess[h[t]] >= 0 THEN sess[h[t]] + 1 ELSE -1
     IN
     IF IsFailure(response)
     THEN /\ crashed' = (IF ReadLine(h[t]) = EOFLine THEN h[t] ELSE None)
          /\ Forget(h[t])
          /\ \/ /\ Popen(t, cstate)
                /\ Goto(t, "exec_rec_read", 2)
                /\ err' = [err EXCEPT ![t] = Detail(response)]
                /\ recov' = [recov EXCEPT ![t] = recov[t] + 1]
                /\ UNCHANGED <<callVars, follows>>
             \/ /\ process' = None
                /\ Finish(t, SyntheticError(cell[t], Detail(response)), recov[t] + 1)
                /\ UNCHANGED <<cstate, nspawned>>
          /\ UNCHANGED defd
     ELSE /\ outq' = Consume(h[t])
          /\ Finish(t, ExecReply(response, h[t], nth), recov[t])
          /\ sess' = [sess EXCEPT ![h[t]] = nth]
          /\ defd' = (defd \/ (response.status = "ok" /\ code[t] = "def"))
          /\ UNCHANGED <<process, cstate, nspawned, inq, ccount, cdef, hsk, crashed>>
  /\ UNCHANGED <<execution_count, calls, fresh>>

\* faulty variant: after the respawn the request is written to the new child
ExecRecRead_Resends(t) ==
  /\ pc[t] = "exec_rec_read"
  /\ ReadReady(h[t])
  /\ LET ready == Strip(ReadLine(h[t])) IN
     /\ outq' = Consume(h[t])
     /\ hsk' = [hsk EXCEPT ![h[t]] = IF HandshakeOK(ready) THEN "ok" ELSE "failed"]
     /\ IF HandshakeOK(ready)
        THEN /\ inq' = Send(process, Request("execute", cell[t], code[t]))
             /\ h' = [h EXCEPT ![t] = process]
             /\ Goto(t, "exec_read", 1)
             /\ UNCHANGED <<callVars, err, follows, recov>>
        ELSE /\ Finish(t, SyntheticError(cell[t], err[t]), recov[t])
             /\ UNCHANGED inq
  /\ UNCHANGED <<process, execution_count, cstate, ccount, cdef, nspawned,
                 calls, sess, crashed, fresh, defd>>

\* the start() of line 151: whatever its handshake gives, the made-up
\* Response is returned
ExecRecRead(t) ==
  /\ pc[t] = "exec_rec_read"
  /\ ReadReady(h[t])
  /\ LET ready == Strip(ReadLine(h[t])) IN
     /\ outq' = Consume(h[t])
     /\ hsk' = [hsk EXCEPT ![h[t]] = IF HandshakeOK(ready) THEN "ok" ELSE "failed"]
  /\ Finish(t, SyntheticError(cell[t], err[t]), recov[t])
  /\ UNCHANGED <<process, execution_count, cstate, inq, ccount, cdef, nspawned,
                 calls, sess, crashed, fresh, defd>>

\* ------------------------------------------------------------ the facade
Range(q) == {q[i] : i \in 1..Len(q)}

\* current_notebook["cells"]
Cells == current_notebook.cells

\* `for i, cell in enumerate(cells): if cell["id"] == id`: the place of the
\* first cell of the list with that id, 0 if there is none
Find(hp, L, id) ==
  IF \E i \in 1..Len(L) : hp[L[i]].id = id
  THEN CHOOSE i \in 1..Len(L) :
         hp[L[i]].id = id /\ \A j \in 1..(i - 1) : hp[L[j]].id # id
  ELSE 0

\* faulty variant: white space counts as source
StripSource_Keeps(src) == src

\* str.strip() of a cell's source: " " is a source of white space only
StripSource(src) == IF src = " " THEN "" ELSE src

\* the cell ids a client may name: those of the notebook it sees, and one
\* that may be in no cell
ReqIds == {cellobj[o].id : o \in Range(Cells)} \cup {"c1"}

\* a cell as a client sends it in the "cells" of /api/notebook/save
ClientCell(id, type, source) == Cell(id, type, source, <<>>, NoCount)

\* the cell lists a client may send
ClientLists ==
  { <<>>,
    <<ClientCell("c1", "code", "def")>>,
    <<ClientCell("c1", "code", "use"), ClientCell("c2", "markdown", "bad")>> }

\* data of /api/notebook/save: "cells" is given or not
SaveData ==
  {[given |-> FALSE, cells |-> <<>>]} \cup {[given |-> TRUE, cells |-> l] : l \in ClientLists}

\* new dicts take the first free places
Least(S) == CHOOSE x \in S : \A y \in S : x <= y

RECURSIVE Fresh(_, _)
Fresh(S, k) == IF k = 0 THEN <<>> ELSE <<Least(S)>> \o Fresh(S \ {Least(S)}, k - 1)

FreeObjs == {o \in Objs : cellobj[o] = NoCell}

\* the dicts something still refers to: the current list, the list a run-all
\* iterates over, the cell a run-all is executing
Roots(L, rq) ==
  Range(L) \cup UNION {Range(rq[t].list) \cup ({rq[t].obj} \ {None}) : t \in Threads}

\* the heap hp with every dict nothing refers to dropped
Gc(hp, L, rq) == [o \in Objs |-> IF o \in Roots(L, rq) THEN hp[o] ELSE NoCell]

\* current_notebook["cells"] is bound to another list object: a run-all that
\* iterates over the old one keeps it, with what it has left to visit; a move
\* that has read its two cells will store them into the old one
Detach(rq) ==
  [t \in Threads |->
     IF rq[t].kind = "run-all" /\ rq[t].shared
     THEN [rq[t] EXCEPT !.shared = FALSE,
                        !.list = SubSeq(Cells, rq[t].idx, Len(Cells)),
                        !.idx = 1]
     ELSE IF rq[t].kind = "move" THEN [rq[t] EXCEPT !.shared = FALSE]
     ELSE rq[t]]

\* faulty variant: the result entry is put before the others
Outputs_ResultFirst(r) ==
  (IF r.result # "" THEN <<[type |-> "result", text |-> r.result]>> ELSE <<>>)
  \o (IF r.x # "" THEN <<[type |-> "stdout", text |-> r.x]>> ELSE <<>>)
  \o (IF r.stderr # "" THEN <<[type |-> "stderr", text |-> r.stderr]>> ELSE <<>>)

\* the outputs list built from a Response: an entry for each of stdout, stderr
\* and result that is not empty
Outputs(r) ==
  (IF r.x # "" THEN <<[type |-> "stdout", text |-> r.x]>> ELSE <<>>)
  \o (IF r.stderr # "" THEN <<[type |-> "stderr", text |-> r.stderr]>> ELSE <<>>)
  \o (IF r.result # "" THEN <<[type |-> "result", text |-> r.result]>> ELSE <<>>)

\* the write-back of /api/run-all; /api/execute also stores the code
WriteResult(c, r) ==
  [c EXCEPT !.execution_count = r.execution_count, !.outputs = Outputs(r)]

\* faulty variant: the file keeps no source text
Dump_NoSource(nb, hp) ==
  [shape |-> nb.shape, nsit_format |-> nb.nsit_format, title |-> nb.title,
   cells |-> [i \in 1..Len(nb.cells) |-> [hp[nb.cells[i]] EXCEPT !.source = ""]]]

\* the notebook as json.dump writes it and json.load reads it: the cells by
\* value
Dump(nb, hp) ==
  [shape |-> nb.shape, nsit_format |-> nb.nsit_format, title |-> nb.title,
   cells |-> [i \in 1..Len(nb.cells) |-> hp[nb.cells[i]]]]

\* the thread has no request to serve
FreeThread(t) == pc[t] = "idle" /\ req[t].kind = "none"

\* a request arrives and gets a handler thread: the first that is free
Serve(t, kind, cid, arg) ==
  /\ FreeThread(t)
  /\ \A u \in Threads : u < t => ~FreeThread(u)
  /\ reqs < MaxReqs
  /\ reqs' = reqs + 1
  /\ served' = [kind |-> kind, cell_id |-> cid, arg |-> arg, n |-> Len(Cells),
                hit |-> Find(cellobj, Cells, cid) # 0]

\* the handler step does not call the supervisor
NoKernel ==
  /\ ret' = NoRet
  /\ UNCHANGED <<supVars, childVars, callVars, pc, h, err, calls, histVars, follows, recov,
                 faults>>

\* the handler calls kernel.<o>(): it is at the `with self.lock` of it
CallKernel(t, o) ==
  /\ pc' = [pc EXCEPT ![t] = "acquire"]
  /\ op' = [op EXCEPT ![t] = o]
  /\ ret' = NoRet
  /\ UNCHANGED <<supVars, childVars, cell, code, h, err, calls, histVars, follows, recov,
                 faults>>

\* ---- POST /api/execute
ApiExecute(t) ==
  /\ \E cid \in ReqIds, k \in Codes :
       /\ Serve(t, "execute", cid, k)
       /\ req' = [req EXCEPT ![t] =
                    [NoReq EXCEPT !.kind = "execute", !.cell_id = cid, !.code = k]]
  /\ CallKernel(t, "execute")
  /\ UNCHANGED <<current_notebook, current_notebook_path, cellobj, files, uuids, res>>

\* kernel.execute() is back.  An exception ends the handler; a Response is
\* written into the first cell of the current notebook with the request's id
ApiExecuteDone(t) ==
  /\ pc[t] = "idle" /\ req[t].kind = "execute" /\ res[t] # NoResult
  /\ LET i == Find(cellobj, Cells, req[t].cell_id) IN
       cellobj' =
         IF res[t].status # "raised" /\ Truthy(current_notebook) /\ i # 0
         THEN [cellobj EXCEPT ![Cells[i]] =
                 [WriteResult(@, res[t]) EXCEPT !.source = req[t].code]]
         ELSE cellobj
  /\ req' = [req EXCEPT ![t] = NoReq]
  /\ res' = [res EXCEPT ![t] = NoResult]
  /\ served' = NoServed
  /\ NoKernel
  /\ UNCHANGED <<current_notebook, current_notebook_path, files, uuids, reqs>>

\* ---- POST /api/kernel/restart
ApiKernelRestart(t) ==
  /\ Serve(t, "restart", "", "")
  /\ CallKernel(t, "restart")
  /\ UNCHANGED <<current_notebook, current_notebook_path, cellobj, files, uuids, req, res>>

\* ---- POST /api/kernel/reset
ApiKernelReset(t) ==
  /\ Serve(t, "reset", "", "")
  /\ CallKernel(t, "reset")
  /\ UNCHANGED <<current_notebook, current_notebook_path, cellobj, files, uuids, req, res>>

\* ---- POST /api/notebook/save
ApiNotebookSave(t) ==
  /\ \E d \in SaveData, fp \in {"", "f"} :
       /\ Serve(t, "save", "", fp)
       /\ IF Truthy(current_notebook)
          THEN LET os == Fresh(FreeObjs, Len(d.cells))
                   hp == [o \in Objs |->
                            IF \E i \in 1..Len(os) : os[i] = o
                            THEN d.cells[CHOOSE i \in 1..Len(os) : os[i] = o]
                            ELSE cellobj[o]]
                   nb == IF d.given THEN [current_notebook EXCEPT !.cells = os]
                         ELSE current_notebook
                   filepath == IF fp # "" THEN fp
                               ELSE IF current_notebook_path # ""
                                    THEN current_notebook_path
                                    ELSE current_notebook.title
               IN
               /\ current_notebook' = nb
               /\ req' = (IF d.given THEN Detach(req) ELSE req)
               /\ cellobj' = Gc(hp, nb.cells, req')
               /\ current_notebook_path' = filepath
               /\ files' = [files EXCEPT ![filepath] = Dump(nb, hp)]
          ELSE UNCHANGED <<current_notebook, current_notebook_path, cellobj, files, req>>
  /\ NoKernel
  /\ UNCHANGED <<uuids, res>>

\* ---- POST /api/notebook/load
ApiNotebookLoad(t) ==
  /\ \E fp \in Paths \cup {""} :
       /\ Serve(t, "load", "", fp)
       /\ IF fp # "" /\ files[fp] # NoNotebook
          THEN LET doc == files[fp]
                   os == Fresh(FreeObjs, Len(doc.cells))
                   hp == [o \in Objs |->
                            IF \E i \in 1..Len(os) : os[i] = o
                            THEN doc.cells[CHOOSE i \in 1..Len(os) : os[i] = o]
                            ELSE cellobj[o]]
               IN
               /\ current_notebook' = [doc EXCEPT !.cells = os]
               /\ current_notebook_path' = fp
               /\ req' = Detach(req)
               /\ cellobj' = Gc(hp, os, req')
          ELSE UNCHANGED <<current_notebook, current_notebook_path, cellobj, req>>
  /\ NoKernel
  /\ UNCHANGED <<files, uuids, res>>

\* ---- POST /api/notebook/new
ApiNotebookNew(t) ==
  /\ \E title \in Titles :
       /\ Serve(t, "new", "", title)
       /\ LET o == Least(FreeObjs) IN
            /\ current_notebook' = Notebook(title, <<o>>)
            /\ req' = Detach(req)
            /\ cellobj' = Gc([cellobj EXCEPT ![o] = EmptyCell(Uuid(uuids + 1), "code")],
                             <<o>>, req')
  /\ uuids' = uuids + 1
  /\ current_notebook_path' = ""
  /\ CallKernel(t, "reset")
  /\ UNCHANGED <<files, res>>

\* ---- POST /api/cell/add
\* list.insert(p, x) at the place p, counted from 1: at the end when p is
\* beyond it
Insert(L, p, x) ==
  IF p > Len(L) THEN Append(L, x) ELSE SubSeq(L, 1, p - 1) \o <<x>> \o SubSeq(L, p, Len(L))

\* The handler holds no lock.  With an after_id that a cell has, the loop
\* finds the place i of that cell, and the insert at i + 1 is a step of its
\* own, into the list that is the current one by then: steps of the other
\* thread may come between.  Without such a cell the new cell is appended
ApiCellAdd(t) ==
  /\ \E ty \in CellTypes, after \in ReqIds \cup {""} :
       /\ Serve(t, "add", after, ty)
       /\ IF Truthy(current_notebook)
          THEN LET o == Least(FreeObjs)
                   i == Find(cellobj, Cells, after)
               IN
               /\ cellobj' = [cellobj EXCEPT ![o] = EmptyCell(Uuid(uuids + 1), ty)]
               /\ uuids' = uuids + 1
               /\ IF after # "" /\ i # 0
                  THEN /\ req' = [req EXCEPT ![t] =
                                    [NoReq EXCEPT !.kind = "add", !.cell_id = after,
                                                  !.code = ty, !.idx = i, !.obj = o]]
                       /\ UNCHANGED current_notebook
                  ELSE /\ current_notebook' =
                            [current_notebook EXCEPT !.cells = Append(Cells, o)]
                       /\ UNCHANGED req
          ELSE UNCHANGED <<current_notebook, cellobj, uuids, req>>
  /\ NoKernel
  /\ UNCHANGED <<current_notebook_path, files, res>>

\* `current_notebook["cells"].insert(i + 1, new_cell)`
ApiCellAddInsert(t) ==
  /\ pc[t] = "idle" /\ req[t].kind = "add"
  /\ current_notebook' =
       [current_notebook EXCEPT !.cells = Insert(Cells, req[t].idx + 1, req[t].obj)]
  /\ req' = [req EXCEPT ![t] = NoReq]
  /\ served' = NoServed
  /\ NoKernel
  /\ UNCHANGED <<current_notebook_path, cellobj, files, uuids, res, reqs>>

\* ---- POST /api/cell/delete
\* faulty variant: the list is left empty when its last cell goes
ApiCellDelete_LeavesEmpty(t) ==
  /\ \E cid \in ReqIds :
       /\ Serve(t, "delete", cid, "")
       /\ IF Truthy(current_notebook)
          THEN LET kept == SelectSeq(Cells, LAMBDA o : cellobj[o].id # cid) IN
               /\ current_notebook' = [current_notebook EXCEPT !.cells = kept]
               /\ req' = Detach(req)
               /\ cellobj' = Gc(cellobj, kept, req')
          ELSE UNCHANGED <<current_notebook, cellobj, req>>
  /\ NoKernel
  /\ UNCHANGED <<current_notebook_path, files, uuids, res>>

ApiCellDelete(t) ==
  /\ \E cid \in ReqIds :
       /\ Serve(t, "delete", cid, "")
       /\ IF Truthy(current_notebook)
          THEN LET kept == SelectSeq(Cells, LAMBDA o : cellobj[o].id # cid)
                   o == Least(FreeObjs)
                   L == IF kept = <<>> THEN <<o>> ELSE kept
                   hp == IF kept = <<>>
                         THEN [cellobj EXCEPT ![o] = EmptyCell(Uuid(uuids + 1), "code")]
                         ELSE cellobj
               IN
               /\ current_notebook' = [current_notebook EXCEPT !.cells = L]
               /\ req' = Detach(req)
               /\ cellobj' = Gc(hp, L, req')
               /\ uuids' = (IF kept = <<>> THEN uuids + 1 ELSE uuids)
          ELSE UNCHANGED <<current_notebook, cellobj, uuids, req>>
  /\ NoKernel
  /\ UNCHANGED <<current_notebook_path, files, res>>

\* ---- POST /api/cell/move
\* `cells[i], cells[j] = cells[j], cells[i]` reads the two cells and then
\* stores them: the handler holds no lock, so steps of the other thread may
\* come between.  The first step finds the cell and reads the pair
ApiCellMove(t) ==
  /\ \E cid \in ReqIds, direction \in {"up", "down"} :
       /\ Serve(t, "move", cid, direction)
       /\ LET i == IF Truthy(current_notebook) THEN Find(cellobj, Cells, cid) ELSE 0
              j == IF direction = "up" THEN i - 1 ELSE i + 1
          IN req' = IF i # 0 /\ j >= 1 /\ j <= Len(Cells)
                    THEN [req EXCEPT ![t] =
                            [NoReq EXCEPT !.kind = "move", !.cell_id = cid,
                                          !.code = direction, !.shared = TRUE,
                                          !.idx = i, !.list = <<Cells[j], Cells[i]>>]]
                    ELSE req
  /\ NoKernel
  /\ UNCHANGED <<current_notebook, current_notebook_path, cellobj, files, uuids, res>>

\* the second step stores the pair, into the list object the first step took
ApiCellMoveStore(t) ==
  /\ pc[t] = "idle" /\ req[t].kind = "move"
  /\ LET i == req[t].idx
         j == IF req[t].code = "up" THEN i - 1 ELSE i + 1
         L == IF req[t].shared
              THEN [Cells EXCEPT ![i] = req[t].list[1], ![j] = req[t].list[2]]
              ELSE Cells
     IN /\ current_notebook' = [current_notebook EXCEPT !.cells = L]
        /\ req' = [req EXCEPT ![t] = NoReq]
        /\ cellobj' = Gc(cellobj, L, req')
  /\ served' = NoServed
  /\ NoKernel
  /\ UNCHANGED <<current_notebook_path, files, uuids, res, reqs>>

\* ---- POST /api/cell/type
\* The handler holds no lock, and its three stores into the cell it found are
\* three statements: the first step finds the cell and stores the type and the
\* empty outputs list
ApiCellType(t) ==
  /\ \E cid \in ReqIds, ty \in CellTypes :
       /\ Serve(t, "type", cid, ty)
       /\ LET i == IF Truthy(current_notebook) THEN Find(cellobj, Cells, cid) ELSE 0 IN
            IF i # 0
            THEN /\ cellobj' = [cellobj EXCEPT ![Cells[i]] =
                                  [@ EXCEPT !.type = ty, !.outputs = <<>>]]
                 /\ req' = [req EXCEPT ![t] =
                              [NoReq EXCEPT !.kind = "type", !.cell_id = cid,
                                            !.code = ty, !.obj = Cells[i]]]
            ELSE UNCHANGED <<cellobj, req>>
  /\ NoKernel
  /\ UNCHANGED <<current_notebook, current_notebook_path, files, uuids, res>>

\* `cell["execution_count"] = None`
ApiCellTypeCount(t) ==
  /\ pc[t] = "idle" /\ req[t].kind = "type"
  /\ req' = [req EXCEPT ![t] = NoReq]
  /\ cellobj' = Gc([cellobj EXCEPT ![req[t].obj].execution_count = NoCount], Cells, req')
  /\ served' = NoServed
  /\ NoKernel
  /\ UNCHANGED <<current_notebook, current_notebook_path, files, uuids, res, reqs>>

\* ---- POST /api/run-all
\* `cell["type"] == "code" and cell["source"].strip()`: the place, from i on,
\* of the next cell of the list to execute, 0 if there is none
NextEligible(hp, L, i) ==
  LET E == {j \in i..Len(L) : hp[L[j]].type = "code" /\ StripSource(hp[L[j]].source) # ""}
  IN IF E = {} THEN 0 ELSE Least(E)

\* the loop goes on from where rq stands, over the heap hp: to the next cell
\* to execute and into kernel.execute(), or to its end
RunAllGo(t, hp, rq) ==
  LET L == IF rq.shared THEN Cells ELSE rq.list
      j == NextEligible(hp, L, rq.idx)
  IN
  IF j = 0
  THEN /\ req' = [req EXCEPT ![t] = NoReq]
       /\ cellobj' = Gc(hp, Cells, req')
       /\ NoKernel
  ELSE /\ req' = [req EXCEPT ![t] =
                    [rq EXCEPT !.obj = L[j], !.cell_id = hp[L[j]].id,
                               !.code = hp[L[j]].source,
                               !.idx = IF rq.shared THEN j + 1 ELSE 1,
                               !.list = IF rq.shared THEN <<>>
                                        ELSE SubSeq(L, j + 1, Len(L))]]
       /\ cellobj' = Gc(hp, Cells, req')
       /\ CallKernel(t, "execute")

ApiRunAll(t) ==
  /\ Serve(t, "run-all", "", "")
  /\ IF Truthy(current_notebook)
     THEN RunAllGo(t, cellobj, [NoReq EXCEPT !.kind = "run-all", !.shared = TRUE, !.idx = 1])
     ELSE NoKernel /\ UNCHANGED <<cellobj, req>>
  /\ UNCHANGED <<current_notebook, current_notebook_path, files, uuids, res>>

\* results.append(result)
Collect(rs, r) == Append(rs, [cell_id |-> r.cell_id, status |-> r.status])

\* kernel.execute() is back in the loop.  An exception ends the handler; a
\* Response is written into the cell that was executed and collected, and the
\* loop goes on
ApiRunAllStep(t) ==
  /\ pc[t] = "idle" /\ req[t].kind = "run-all" /\ res[t] # NoResult
  /\ IF res[t].status = "raised"
     THEN /\ req' = [req EXCEPT ![t] = NoReq]
          /\ cellobj' = Gc(cellobj, Cells, req')
          /\ NoKernel
     ELSE RunAllGo(t, [cellobj EXCEPT ![req[t].obj] = WriteResult(@, res[t])],
                   [req[t] EXCEPT !.obj = None,
                                  !.results = Collect(@, res[t])])
  /\ res' = [res EXCEPT ![t] = NoResult]
  /\ served' = NoServed
  /\ UNCHANGED <<current_notebook, current_notebook_path, files, uuids, reqs>>

\* ------------------------------------------------------ the specification
Init ==
  /\ process = None
  /\ execution_count = 0
  /\ lock = Free
  /\ cstate = [c \in Children |-> "none"]
  /\ inq = [c \in Children |-> <<>>]
  /\ outq = [c \in Children |-> <<>>]
  /\ ccount = [c \in Children |-> 0]
  /\ cdef = [c \in Children |-> FALSE]
  /\ nspawned = 0
  /\ faults = -1
  /\ pc = [t \in Threads |-> "idle"]
  /\ op = [t \in Threads |-> "none"]
  /\ cell = [t \in Threads |-> ""]
  /\ code = [t \in Threads |-> ""]
  /\ h = [t \in Threads |-> None]
  /\ err = [t \in Threads |-> ""]
  /\ calls = 0
  /\ ret = NoRet
  /\ hsk = [c \in Children |-> "none"]
  /\ sess = [c \in Children |-> 0]
  /\ crashed = None
  /\ fresh = 0
  /\ defd = FALSE
  /\ follows = [t \in Threads |-> NoFollow]
  /\ recov = [t \in Threads |-> 0]
  /\ current_notebook = NoNotebook
  /\ current_notebook_path = ""
  /\ cellobj = [o \in Objs |-> NoCell]
  /\ files = [f \in Paths |-> NoNotebook]
  /\ uuids = 0
  /\ req = [t \in Threads |-> NoReq]
  /\ res = [t \in Threads |-> NoResult]
  /\ reqs = 0
  /\ served = NoServed

Next ==
  \/ \E t \in Threads : Call(t)
  \/ \E t \in Threads : StartBegin(t)
  \/ \E t \in Threads : StartRead(t)
  \/ \E t \in Threads : StopBegin(t)
  \/ \E t \in Threads : StopWait(t)
  \/ \E t \in Threads : RestartBegin(t)
  \/ \E t \in Threads : RestartWait(t)
  \/ \E t \in Threads : RestartRead(t)
  \/ \E t \in Threads : ResetBegin(t)
  \/ \E t \in Threads : ResetSpawnRead(t)
  \/ \E t \in Threads : ResetRead(t)
  \/ \E t \in Threads : ExecBegin(t)
  \/ \E t \in Threads : ExecBeginFail(t)
  \/ \E t \in Threads : ExecPreRead(t)
  \/ \E t \in Threads : ExecRead(t)
  \/ \E t \in Threads : ExecRecRead(t)
  \/ \E c \in Children : ChildBoot(c)
  \/ \E c \in Children : ChildServe(c)
  \/ \E c \in Children : ChildKill(c)

Spec == Init /\ [][Next]_vars

\* a notebook file that is there when the server starts: three code cells,
\* the first fails and the second is blank
StartDoc ==
  [shape |-> "notebook", nsit_format |-> "1.0", title |-> "Untitled",
   cells |-> <<ClientCell("c1", "code", "bad"), ClientCell("c2", "code", " "),
               ClientCell("c3", "code", "use")>>]

\* a file another program wrote, in a later format
OtherDoc ==
  [shape |-> "notebook", nsit_format |-> "2.0", title |-> "Untitled",
   cells |-> <<ClientCell("c1", "code", "def")>>]

\* how the server is started: without a file; with the file "f"; without a
\* file while "f" holds a document of another format
Starts == {"new", "file", "other"}

\* the server as main() leaves it when it starts to serve: the notebook of the
\* file named, or else a new one, is the current one and kernel.start() has
\* returned
NbInit ==
  /\ process = 1
  /\ execution_count = 0
  /\ lock = Free
  /\ cstate = [c \in Children |-> IF c = 1 THEN "up" ELSE "none"]
  /\ inq = [c \in Children |-> <<>>]
  /\ outq = [c \in Children |-> <<>>]
  /\ ccount = [c \in Children |-> 0]
  /\ cdef = [c \in Children |-> FALSE]
  /\ nspawned = 1
  /\ faults = MaxFaults
  /\ pc = [t \in Threads |-> "idle"]
  /\ op = [t \in Threads |-> "none"]
  /\ cell = [t \in Threads |-> ""]
  /\ code = [t \in Threads |-> ""]
  /\ h = [t \in Threads |-> None]
  /\ err = [t \in Threads |-> ""]
  /\ calls = 0
  /\ ret = NoRet
  /\ hsk = [c \in Children |-> IF c = 1 THEN "ok" ELSE "none"]
  /\ sess = [c \in Children |-> 0]
  /\ crashed = None
  /\ fresh = 0
  /\ defd = FALSE
  /\ follows = [t \in Threads |-> NoFollow]
  /\ recov = [t \in Threads |-> 0]
  /\ \E start \in Starts :
       IF start = "file"
       THEN /\ current_notebook = [StartDoc EXCEPT !.cells = <<1, 2, 3>>]
            /\ current_notebook_path = "f"
            /\ cellobj = [o \in Objs |-> IF o <= 3 THEN StartDoc.cells[o] ELSE NoCell]
            /\ files = [f \in Paths |-> IF f = "f" THEN StartDoc ELSE NoNotebook]
            /\ uuids = 0
       ELSE /\ current_notebook = Notebook("Untitled", <<1>>)
            /\ current_notebook_path = ""
            /\ cellobj = [o \in Objs |-> IF o = 1 THEN EmptyCell(Uuid(1), "code") ELSE NoCell]
            /\ files = [f \in Paths |->
                          IF f = "f" /\ start = "other" THEN OtherDoc ELSE NoNotebook]
            /\ uuids = 1
  /\ req = [t \in Threads |-> NoReq]
  /\ res = [t \in Threads |-> NoResult]
  /\ reqs = 0
  /\ served = NoServed

NbNext ==
  \/ \E t \in Threads : ApiExecute(t)
  \/ \E t \in Threads : ApiExecuteDone(t)
  \/ \E t \in Threads : ApiKernelRestart(t)
  \/ \E t \in Threads : ApiKernelReset(t)
  \/ \E t \in Threads : ApiNotebookSave(t)
  \/ \E t \in Threads : ApiNotebookLoad(t)
  \/ \E t \in Threads : ApiNotebookNew(t)
  \/ \E t \in Threads : ApiCellAdd(t)
  \/ \E t \in Threads : ApiCellAddInsert(t)
  \/ \E t \in Threads : ApiCellDelete(t)
  \/ \E t \in Threads : ApiCellMove(t)
  \/ \E t \in Threads : ApiCellMoveStore(t)
  \/ \E t \in Threads : ApiCellType(t)
  \/ \E t \in Threads : ApiCellTypeCount(t)
  \/ \E t \in Threads : ApiRunAll(t)
  \/ \E t \in Threads : ApiRunAllStep(t)
  \/ \E t \in Threads : RestartBegin(t)
  \/ \E t \in Threads : RestartWait(t)
  \/ \E t \in Threads : RestartRead(t)
  \/ \E t \in Threads : ResetBegin(t)
  \/ \E t \in Threads : ResetSpawnRead(t)
  \/ \E t \in Threads : ResetRead(t)
  \/ \E t \in Threads : ExecBegin(t)
  \/ \E t \in Threads : ExecBeginFail(t)
  \/ \E t \in Threads : ExecPreRead(t)
  \/ \E t \in Threads : ExecRead(t)
  \/ \E t \in Threads : ExecRecRead(t)
  \/ \E c \in Children : ChildBoot(c)
  \/ \E c \in Children : ChildServe(c)
  \/ \E c \in Children : ChildKill(c)

NbSpec == NbInit /\ [][NbNext]_vars

\* ------------------------------------------------------------ the claims
\* the thread is inside the `with self.lock` block of its operation
InCall(t) == pc[t] \notin {"idle", "acquire"}

\* the thread is blocked in readline() on a child that runs and has not
\* written a line
Blocked(t) ==
  /\ pc[t] \in {"start_read", "restart_read", "reset_spawn_read", "reset_read",
                "exec_pre_read", "exec_read", "exec_rec_read"}
  /\ ~ReadReady(h[t])

\* C1: at most one thread is inside a Supervisor operation at a time, and a
\* thread holds the lock exactly from the first check of its operation until
\* the operation returns.
C1_MutualExclusion ==
  /\ \A t, u \in Threads : (InCall(t) /\ InCall(u)) => t = u
  /\ \A t \in Threads : InCall(t) <=> (lock.owner = t /\ lock.depth >= 1)

\* an operation is under way while another request waits for the lock
C1_Witness ==
  \E t, u \in Threads : t # u /\ InCall(t) /\ Blocked(t) /\ pc[u] = "acquire"

\* C2 (as claimed): every execute call returns a Response whose status is ok
\* or error; it never raises.
C2_ExecuteNeverRaises ==
  ret.op = "execute" => ret.res.status \in {"ok", "error"}

\* C3: an execute whose child dies before answering returns one Response with
\* status error and the caller's cell_id; the execute called next is served by
\* a child spawned after the dead one, and what that child answers for code
\* that runs has status ok and execution_count 1.
C3_CrashThenFreshChild ==
  /\ (ret.op = "execute" /\ crashed # None) =>
       (ret.res.status = "error" /\ ret.res.cell_id = ret.cell /\ ret.res.by = None)
  /\ (ret.op = "execute" /\ ret.crash # None /\ ret.res.by # None) =>
       /\ ret.res.by > ret.crash
       /\ ret.code # "bad" => ret.res.status = "ok"
       /\ ret.res.status = "ok" => ret.res.execution_count = 1

\* the execute after a crash was answered ok by the respawned child
C3_Witness ==
  /\ ret.op = "execute" /\ ret.crash # None
  /\ ret.res.by = ret.crash + 1
  /\ ret.res.status = "ok" /\ ret.res.execution_count = 1

\* C4: a failure after the request was written makes execute respawn once, and
\* return the made-up Response: status error, the caller's cell_id, the
\* failure detail; the same whether the respawn succeeded or not.
C4_OneRespawnThenError ==
  /\ \A t \in Threads :
       /\ recov[t] <= 1
       /\ pc[t] = "exec_rec_read" => (recov[t] = 1 /\ err[t] \in {"noresp", "decode"})
       /\ pc[t] # "exec_rec_read" => recov[t] = 0
  /\ ret.op = "execute" =>
       /\ ret.recov <= 1
       /\ ret.recov = 1 =>
            /\ ret.res.status = "error"
            /\ ret.res.cell_id = ret.cell
            /\ ret.res.stderr \in {"noresp", "decode"}
            /\ ret.res.by = None
       /\ (ret.recov = 0 /\ ret.res.status # "raised") => ret.res.by # None

\* the made-up Response was returned although the respawn failed
C4_Witness ==
  /\ ret.op = "execute" /\ ret.recov = 1 /\ ret.res.status = "error"
  /\ ret.res.stderr = "decode"
  /\ process # None /\ hsk[process] = "failed"

\* C5: the k-th execute in a row answered ok within one session of a child (no
\* reset, crash or failed execute in between) returns execution_count k.
C5_CountsInOrder ==
  (ret.op = "execute" /\ ret.res.status = "ok" /\ ret.res.nth > 0) =>
    ret.res.execution_count = ret.res.nth

\* the second successful execute of a session returned 2 while another request
\* was waiting
C5_Witness ==
  /\ ret.op = "execute" /\ ret.res.status = "ok"
  /\ ret.res.nth = 2 /\ ret.res.execution_count = 2
  /\ \E u \in Threads : u # ret.t /\ pc[u] = "acquire"

\* C6: the execute that follows a successful reset or restart is answered with
\* execution_count 1, and reading x there gives an ok Response that shows x
\* undefined.
C6_CleanAfterReset ==
  (ret.op = "execute" /\ ret.fresh > 0 /\ ret.res.by # None) =>
    /\ ret.res.status = "ok" => ret.res.execution_count = 1
    /\ ret.code = "use" => (ret.res.status = "ok" /\ ret.res.x = "None")

\* x had been defined before the reset or restart, and is read as undefined
C6_Witness ==
  /\ ret.op = "execute" /\ ret.fresh = 2 /\ ret.code = "use"
  /\ ret.res.status = "ok" /\ ret.res.x = "None" /\ ret.res.execution_count = 1

\* C7 (as claimed): when start() fails on the first line of the child it
\* spawned, no process handle is retained and is_alive() reads false.
C7_StartFailureLeavesNotStarted ==
  (ret.op = "start" /\ ret.res.status = "raised" /\ ret.res.stderr # "popen") =>
    (process = None /\ ~IsAlive)

\* C8 (as claimed): no execute or reset record is written to a child that
\* failed the startup handshake.
C8_FailedChildNotUsed ==
  \A c \in Children :
    hsk[c] = "failed" =>
      \A i \in 1..Len(inq[c]) : inq[c][i].action \notin {"execute", "reset"}

\* C9 (as claimed): in start, execute and reset, a child that sent an empty or
\* undecodable line is discarded, as one that exited is: the supervisor no
\* longer refers to it when the read has been handled.
C9_ViolationTreatedAsCrash ==
  [][\A t \in Threads :
       (/\ pc[t] \in {"start_read", "reset_read", "exec_read",
                      "exec_pre_read", "exec_rec_read"}
        /\ pc'[t] # pc[t]
        /\ ReadLine(h[t]).kind \in {"blank", "garbage"})
       => process' # h[t]]_vars

\* C10 (as claimed): a restart issued while an execute is blocked on a child
\* that does not answer can go ahead.
C10_RestartEscapesHang ==
  \A t, u \in Threads :
    (pc[t] = "exec_read" /\ Blocked(t) /\ pc[u] = "acquire" /\ op[u] = "restart")
      => ENABLED RestartBegin(u)

\* C10 (amended): while an execute is blocked on a child that does not answer,
\* a restart issued by another request waits for the lock: it has not started
\* and cannot start.
C10_RestartWaitsForGuard ==
  \A t, u \in Threads :
    (t # u /\ pc[t] = "exec_read" /\ Blocked(t) /\ op[u] = "restart")
      => (pc[u] = "acquire" /\ ~ENABLED RestartBegin(u))

\* an execute is blocked on a silent child and a restart has been issued
C10_Witness ==
  \E t, u \in Threads :
    /\ t # u /\ pc[t] = "exec_read" /\ Blocked(t)
    /\ cstate[h[t]] = "up" /\ inq[h[t]] # <<>>
    /\ pc[u] = "acquire" /\ op[u] = "restart"

\* the child runs
Running(c) == cstate[c] \in {"booting", "up"}

\* C11 (as claimed): when restart() has returned the counter is 0; when it
\* returned without raising, the handle refers to the child this call spawned,
\* whose kernel_ready line was read, and no child spawned earlier still runs.
C11_RestartLeavesOneChild ==
  ret.op = "restart" =>
    /\ execution_count = 0
    /\ ret.res.status = "returned" =>
         /\ process = nspawned
         /\ hsk[process] = "ok"
         /\ \A c \in Children : (c # process) => ~Running(c)

HasRecord(q, a) == \E i \in 1..Len(q) : q[i].action = a

\* C13: reset() called while the child is dead or absent sets the counter to
\* 0 and spawns a child instead of writing a reset record; it returns reset_ok
\* with the handle on that child when the first line read is kernel_ready, and
\* an error result with the handle cleared when the spawn or the handshake
\* fails.
C13_ResetOnDeadChild ==
  /\ [](\A t \in Threads :
          pc[t] = "reset_spawn_read" =>
            /\ process = h[t] /\ h[t] = nspawned
            /\ inq[h[t]] = <<>>
            /\ execution_count = 0)
  /\ [][\A t \in Threads :
          /\ (/\ pc[t] = "acquire" /\ op[t] = "reset" /\ pc'[t] # pc[t]
              /\ (process = None \/ ~Running(process))) =>
               /\ execution_count' = 0
               /\ \A c \in Children : ~HasRecord(inq'[c], "reset")
               /\ \/ pc'[t] = "reset_spawn_read" /\ nspawned' = nspawned + 1
                  \/ /\ pc'[t] = "idle" /\ nspawned' = nspawned
                     /\ ret'.res.status = "error" /\ process' = None
          /\ (pc[t] = "reset_spawn_read" /\ pc'[t] # pc[t]) =>
               /\ ret'.op = "reset"
               /\ execution_count' = 0
               /\ \A c \in Children : ~HasRecord(inq'[c], "reset")
               /\ IF ReadLine(h[t]) = ReadyLine
                  THEN ret'.res.status = "reset_ok" /\ process' = h[t]
                  ELSE ret'.res.status = "error" /\ process' = None]_vars

\* reset() found an earlier child dead and returned reset_ok with a new one
C13_Witness ==
  /\ ret.op = "reset" /\ ret.res = ResetOk
  /\ process > 1 /\ process = nspawned /\ hsk[process] = "ok"
  /\ cstate[1] = "exited"

\* C14 (as claimed): when stop() has returned, the handle is cleared and no
\* child the supervisor spawned is running.
C14_StopLeavesNothingRunning ==
  ret.op = "stop" => (process = None /\ \A c \in Children : ~Running(c))

\* the supervisor is Ready: its child runs and has passed the handshake
Ready == process # None /\ cstate[process] = "up" /\ hsk[process] = "ok"

\* C15: start() called while the supervisor is Ready returns at once: nothing
\* is spawned, written or read, and the handle, the counter and the child's
\* interpreter state are as before.
C15_StartIdempotent ==
  [][\A t \in Threads :
       (pc[t] = "acquire" /\ op[t] = "start" /\ pc'[t] # pc[t] /\ Ready) =>
         /\ pc'[t] = "idle"
         /\ ret'.res = Returned
         /\ UNCHANGED <<process, execution_count, cstate, inq, outq, ccount, cdef,
                        nspawned>>]_vars

\* start() returned while the child holds a definition and has counted an
\* execution
C15_Witness ==
  /\ ret.op = "start" /\ ret.res = Returned
  /\ Ready /\ cdef[process] /\ ccount[process] >= 1

\* C16: an execute that finds the child dead or absent spawns one before
\* sending; when that child passes the handshake the request goes to it, and
\* unless it fails in turn execute returns its answer to the request, not an
\* error for the earlier death.  A child is spawned only inside a start,
\* restart, reset or execute call, one at a time.
C16_TransparentRespawn ==
  /\ [](\A t \in Threads :
          (pc[t] = "exec_read" /\ follows[t].lazy # None) =>
            (h[t] = follows[t].lazy /\ process = h[t] /\ hsk[h[t]] = "ok"))
  /\ []((/\ ret.op = "execute" /\ ret.lazy # None
         /\ ret.res.status # "raised" /\ ret.recov = 0) =>
          /\ ret.res.by = ret.lazy
          /\ ret.res.cell_id = ret.cell
          /\ ret.res.stderr = (IF ret.code = "bad" THEN "fault" ELSE "")
          /\ ret.res.status = (IF ret.code = "bad" THEN "error" ELSE "ok"))
  /\ [][nspawned' # nspawned =>
          /\ nspawned' = nspawned + 1 /\ process' = nspawned'
          /\ \E t \in Threads :
               /\ lock'.owner = t
               /\ op[t] \in {"start", "restart", "reset", "execute"}
               /\ pc'[t] \in {"start_read", "restart_read", "reset_spawn_read",
                              "exec_pre_read", "exec_rec_read"}]_vars

\* the first child has exited, and an execute was answered ok by the child it
\* spawned before sending
C16_Witness ==
  /\ ret.op = "execute" /\ ret.lazy # None /\ ret.lazy > 1
  /\ cstate[1] = "exited"
  /\ ret.res.status = "ok" /\ ret.res.by = ret.lazy

\* C17: when the line execute() reads is an error record of the child, execute
\* returns that record as it is, and the child stays: nothing is spawned,
\* killed, written or reset, the handle is the same, and the child's
\* definitions and counter are as they were.
C17_ChildErrorReturnedVerbatim ==
  [][\A t \in Threads :
       (/\ pc[t] = "exec_read" /\ pc'[t] # pc[t]
        /\ ReadLine(h[t]).kind = "json" /\ ReadLine(h[t]).status = "error") =>
         /\ pc'[t] = "idle"
         /\ ret'.op = "execute"
         /\ ret'.res.status = "error" /\ ret'.res.by = h[t]
         /\ ret'.res.cell_id = ReadLine(h[t]).cell_id
         /\ ret'.res.execution_count = ReadLine(h[t]).execution_count
         /\ ret'.res.x = ReadLine(h[t]).x
         /\ ret'.recov = 0
         /\ UNCHANGED <<process, execution_count, cstate, inq, ccount, cdef, nspawned>>]_vars

\* a cell that faults got the child's error back, and the child that answered
\* is still the current one, keeps its definition and has counted two
\* executions
C17_Witness ==
  /\ ret.op = "execute" /\ ret.code = "bad"
  /\ ret.res.status = "error" /\ ret.res.by # None /\ ret.res.by = process
  /\ cstate[process] = "up" /\ cdef[process] /\ ccount[process] = 2
  /\ ret.res.execution_count = 2

\* C18: at most one line, request or answer, is under way on a child's pipes
\* at any time, and every Response execute returns carries the cell_id its
\* caller passed.
C18_ReplyMatchesCaller ==
  /\ \A c \in Children : Len(inq[c]) + Len(outq[c]) <= 1
  /\ (ret.op = "execute" /\ ret.res.status \in {"ok", "error"}) =>
       ret.res.cell_id = ret.cell

\* an execute was answered for its own cell while an execute of another
\* request was waiting for the lock
C18_Witness ==
  /\ ret.op = "execute" /\ ret.res.status = "ok" /\ ret.res.by # None
  /\ ret.res.cell_id = ret.cell
  /\ \E u \in Threads : u # ret.t /\ pc[u] = "acquire" /\ op[u] = "execute"

\* C19 (as claimed): the current notebook has at least one cell, whatever
\* requests the server has served.
C19_NeverEmpty == Truthy(current_notebook) => Len(Cells) >= 1

\* the ids of the cells a saved document holds
FileIds == UNION {{files[f].cells[i].id : i \in 1..Len(files[f].cells)} : f \in Paths}

C21_UniqueIds ==
  Truthy(current_notebook) =>
    \A i, j \in 1..Len(Cells) : cellobj[Cells[i]].id = cellobj[Cells[j]].id => i = j

\* the handler of thread t writes the Response it got back into a cell (or
\* finds no cell to write it into) in this step
WritesBack(t) ==
  /\ req[t].kind \in {"execute", "run-all"}
  /\ res[t] # NoResult /\ res[t].status # "raised"
  /\ res'[t] = NoResult

\* C22: a Response with status error, made by the child or made up after a
\* crash, does not set the execution_count of any cell: the step that writes
\* it back leaves the execution_count of every cell of the notebook as it was.
C22_ErrorLeavesCount ==
  [][\A t \in Threads :
       (WritesBack(t) /\ res[t].status = "error") =>
         \A o \in Range(Cells) : cellobj'[o].execution_count = cellobj[o].execution_count]_vars

\* the cell dict the handler of thread t writes its Response into: for
\* /api/execute the first cell of the notebook with the request's id, for
\* /api/run-all the cell it took from the list; None if there is none
Target(t) ==
  IF req[t].kind = "run-all" THEN req[t].obj
  ELSE LET i == Find(cellobj, Cells, req[t].cell_id)
       IN IF Truthy(current_notebook) /\ i # 0 THEN Cells[i] ELSE None

\* the text of a Response that an outputs entry of type ty shows
TextOf(r, ty) == IF ty = "stdout" THEN r.x ELSE IF ty = "stderr" THEN r.stderr ELSE r.result

Rank(ty) == IF ty = "stdout" THEN 1 ELSE IF ty = "stderr" THEN 2 ELSE 3

\* out has one entry for each non-empty text of r, no other entry, and the
\* entries stand in the order stdout, stderr, result
Rebuilt(out, r) ==
  /\ \A ty \in {"stdout", "stderr", "result"} :
       (\E k \in 1..Len(out) : out[k].type = ty) <=> TextOf(r, ty) # ""
  /\ \A k \in 1..Len(out) :
       /\ out[k].type \in {"stdout", "stderr", "result"}
       /\ out[k].text = TextOf(r, out[k].type)
  /\ \A k, l \in 1..Len(out) : k < l => Rank(out[k].type) < Rank(out[l].type)

C24_ExecuteFrame ==
  [][\A t \in Threads :
       (WritesBack(t) /\ req[t].kind = "execute") =>
         /\ current_notebook' = current_notebook
         /\ \A o \in Range(Cells) :
              IF o = Target(t)
              THEN /\ cellobj'[o].id = cellobj[o].id
                   /\ cellobj'[o].type = cellobj[o].type
                   /\ cellobj'[o].source = cellobj[o].source
              ELSE cellobj'[o] = cellobj[o]]_vars

\* the list a run-all of thread t iterates over
Visited(t) == IF req[t].shared THEN Cells ELSE req[t].list

\* C25: a run-all in which a cell's Response had status error does not end
\* before the loop has been through its list: when its handler ends, it has
\* got a Response for the cell it executed last and no cell to execute is
\* left in the list.
C25_RunAllGoesOn ==
  [][\A t \in Threads :
       ( /\ req[t].kind = "run-all" /\ req'[t].kind = "none"
         /\ \/ res[t].status = "error"
            \/ \E k \in 1..Len(req[t].results) : req[t].results[k].status = "error" ) =>
         /\ res[t].status # "raised"
         /\ NextEligible(cellobj', Visited(t), req[t].idx) = 0]_vars

\* the handler of /api/run-all on thread t takes a step: it takes up the
\* request, or it is back from kernel.execute()
RunAllSteps(t) ==
  \/ /\ served'.kind = "run-all"
     /\ FreeThread(t) /\ \A u \in Threads : u < t => ~FreeThread(u)
  \/ /\ req[t].kind = "run-all" /\ res[t] # NoResult /\ res'[t] = NoResult

\* thread t writes its execute record to the child in this step
SendsExecute(t) == pc[t] \in {"acquire", "exec_pre_read"} /\ pc'[t] = "exec_read"

InFlight(t) ==
  /\ req[t].kind \in {"execute", "run-all"}
  /\ \/ pc[t] \in {"exec_read", "exec_rec_read"}
     \/ res[t] # NoResult

\* C27: from the moment the kernel executes a cell of the notebook for a
\* handler until that handler has written the Response into the cell, no
\* delete, move or retype and no write-back of another handler changes the
\* notebook.
C27_WriteBackInCriticalSection ==
  [][\A t \in Threads :
       ( /\ InFlight(t) /\ InFlight(t)' /\ Target(t) \in Range(Cells)
         /\ served'.kind \notin {"add", "save", "load", "new"}
         /\ \A u \in Threads : req[u].kind # "add" ) =>
         /\ current_notebook' = current_notebook
         /\ \A o \in Range(Cells) : cellobj'[o] = cellobj[o]]_vars

\* the document doc of a file and the notebook nb over the heap hp have the
\* same format and title, and the same cells in the same order: ids, types
\* and source texts
SameDoc(doc, nb, hp) ==
  /\ doc.shape = nb.shape /\ doc.nsit_format = nb.nsit_format /\ doc.title = nb.title
  /\ Len(doc.cells) = Len(nb.cells)
  /\ \A i \in 1..Len(doc.cells) :
       /\ doc.cells[i].id = hp[nb.cells[i]].id
       /\ doc.cells[i].type = hp[nb.cells[i]].type
       /\ doc.cells[i].source = hp[nb.cells[i]].source

C29_LoadRejectsOtherFormat ==
  Truthy(current_notebook) => current_notebook.nsit_format = "1.0"

\* C30: a delete, move or retype that names an id no cell of the notebook
\* has, and the write-back of an execute for such an id, leave the notebook
\* as it was: the same cells, unchanged, in the same order; and the step does
\* nothing to the kernel process.
C30_UnknownCellNoOp ==
  [][( \/ served'.kind \in {"delete", "move", "type"} /\ ~served'.hit
       \/ \E t \in Threads :
            WritesBack(t) /\ req[t].kind = "execute" /\ Target(t) = None ) =>
       /\ current_notebook' = current_notebook
       /\ \A o \in Range(Cells) : cellobj'[o] = cellobj[o]
       /\ UNCHANGED <<process, cstate, nspawned>>]_vars

\* the step puts one new cell at the place k of the list: an empty cell of
\* type ty, without outputs and without execution_count, with an id no cell of
\* the notebook has; the cells that were there stay as they were, in their
\* order
Added(k, ty) ==
  /\ Len(Cells') = Len(Cells) + 1
  /\ \A i \in 1..Len(Cells) : Cells'[IF i < k THEN i ELSE i + 1] = Cells[i]
  /\ Cells'[k] \notin Range(Cells)
  /\ cellobj'[Cells'[k]].type = ty
  /\ cellobj'[Cells'[k]].source = ""
  /\ cellobj'[Cells'[k]].outputs = <<>>
  /\ cellobj'[Cells'[k]].execution_count = NoCount
  /\ \A o \in Range(Cells) :
       cellobj'[o] = cellobj[o] /\ cellobj[o].id # cellobj'[Cells'[k]].id

\* a cell of the list has this id
HasId(id) == \E i \in 1..Len(Cells) : cellobj[Cells[i]].id = id

\* the place k is right after the first cell of the list with this id
RightAfter(k, id) ==
  /\ k > 1
  /\ cellobj[Cells[k - 1]].id = id
  /\ \A i \in 1..(k - 2) : cellobj[Cells[i]].id # id

\* C31: /api/cell/add puts exactly one new cell into the list: an empty cell
\* of the type asked for, right after the cell with the id after_id if there
\* is one, at the end if after_id is missing or no cell has it; the cells that
\* were there keep their content and their order.  The handler either does so
\* when it takes the request up, or, having found the cell with after_id, in
\* its next step: the new cell then goes right after that cell if it is still
\* in the list.
C31_AddCell ==
  [][/\ (served'.kind = "add" /\ Truthy(current_notebook)) =>
          \E t \in Threads :
            /\ req[t].kind = "none"
            /\ IF HasId(served'.cell_id)
               THEN /\ req'[t].kind = "add"
                    /\ current_notebook' = current_notebook
                    /\ \A o \in Range(Cells) : cellobj'[o] = cellobj[o]
               ELSE /\ req'[t].kind = "none"
                    /\ Added(Len(Cells) + 1, served'.arg)
     /\ \A t \in Threads :
          (req[t].kind = "add" /\ req'[t].kind = "none") =>
            \E k \in 1..(Len(Cells) + 1) :
              /\ Added(k, req[t].code)
              /\ HasId(req[t].cell_id) => RightAfter(k, req[t].cell_id)]_vars

\* the place next to i in the direction given
Sibling(i, direction) == IF direction = "up" THEN i - 1 ELSE i + 1

\* the list L with the cells at its places i and j exchanged
Exchanged(L, i, j) ==
  [k \in 1..Len(L) |-> IF k = i THEN L[j] ELSE IF k = j THEN L[i] ELSE L[k]]

\* the first cell with this id has a cell next to it in the direction given
CanMove(id, direction) ==
  /\ HasId(id)
  /\ Sibling(Find(cellobj, Cells, id), direction) \in 1..Len(Cells)

\* C32: /api/cell/move exchanges the cell with the one next to it in the
\* direction given and changes nothing else: the list holds the same cells
\* before and after, and no cell's content changes; for the first cell moved
\* up, the last cell moved down and an id no cell has, nothing changes at all.
\* The handler decides on the no-op when it takes the request up, and
\* exchanges the two cells in its next step, in the list it took them from (a
\* list that is no longer the notebook's by then is of no concern).
C32_MoveCell ==
  [][/\ (served'.kind = "move" /\ Truthy(current_notebook)) =>
          /\ current_notebook' = current_notebook
          /\ \A o \in Range(Cells) : cellobj'[o] = cellobj[o]
          /\ \E t \in Threads :
               /\ req[t].kind = "none"
               /\ req'[t].kind = (IF CanMove(served'.cell_id, served'.arg)
                                  THEN "move" ELSE "none")
     /\ \A t \in Threads :
          (req[t].kind = "move" /\ req'[t].kind = "none") =>
            /\ \A o \in Range(Cells) : cellobj'[o] = cellobj[o]
            /\ Cells' = (IF req[t].shared /\ CanMove(req[t].cell_id, req[t].code)
                         THEN LET i == Find(cellobj, Cells, req[t].cell_id)
                              IN Exchanged(Cells, i, Sibling(i, req[t].code))
                         ELSE Cells)]_vars

\* C33: /api/cell/type on a cell of the notebook gives the cell the new type,
\* an empty outputs list and no execution_count; its id and source stay, no
\* other cell is changed and the list stays as it is.  The handler stores the
\* type and the empty list when it takes the request up, and clears the
\* execution_count in its next step: the cell then has empty outputs and no
\* execution_count.
C33_RetypeCell ==
  [][/\ (served'.kind = "type" /\ Truthy(current_notebook) /\ HasId(served'.cell_id)) =>
          LET o == Cells[Find(cellobj, Cells, served'.cell_id)] IN
          /\ current_notebook' = current_notebook
          /\ cellobj'[o].type = served'.arg
          /\ cellobj'[o].outputs = <<>>
          /\ cellobj'[o].id = cellobj[o].id
          /\ cellobj'[o].source = cellobj[o].source
          /\ \A p \in Range(Cells) \ {o} : cellobj'[p] = cellobj[p]
          /\ \E t \in Threads : req[t].kind = "none" /\ req'[t].kind = "type"
     /\ \A t \in Threads :
          (req[t].kind = "type" /\ req'[t].kind = "none") =>
            /\ current_notebook' = current_notebook
            /\ \A p \in Range(Cells) \ {req[t].obj} : cellobj'[p] = cellobj[p]
            /\ req[t].obj \in Range(Cells) =>
                 /\ cellobj'[req[t].obj].outputs = <<>>
                 /\ cellobj'[req[t].obj].execution_count = NoCount
                 /\ cellobj'[req[t].obj].id = cellobj[req[t].obj].id
                 /\ cellobj'[req[t].obj].type = cellobj[req[t].obj].type
                 /\ cellobj'[req[t].obj].source = cellobj[req[t].obj].source]_vars

\* C34 (as claimed): at most one child the supervisor spawned runs at any
\* time: a child the supervisor no longer refers to has exited or was killed,
\* also one that was alive and sent an empty or undecodable line.
C34_AtMostOneChild ==
  /\ Cardinality({c \in Children : Running(c)}) <= 1
  /\ \A c \in Children : Running(c) => process = c

\* the execute records among the lines q
ExecRecords(q) == {i \in 1..Len(q) : q[i].action = "execute"}

\* C35: an execute call writes at most one execute record.  A record is
\* written only by a call that goes on to read the answer, it is the record
\* of that call's cell_id and code, and from reading the answer the call goes
\* on to the respawn or returns, and from the respawn it returns: it never
\* comes back to where a record is written, and the child spawned after a
\* failure gets no record from the call.
C35_OneRecordPerCall ==
  /\ [](\A t \in Threads :
          pc[t] = "exec_rec_read" => (process = h[t] => inq[h[t]] = <<>>))
  /\ [][/\ \A c \in Children :
             Cardinality(ExecRecords(inq'[c])) > Cardinality(ExecRecords(inq[c])) =>
               /\ Cardinality(ExecRecords(inq'[c])) = Cardinality(ExecRecords(inq[c])) + 1
               /\ \A d \in Children \ {c} :
                    Cardinality(ExecRecords(inq'[d])) <= Cardinality(ExecRecords(inq[d]))
               /\ \E t \in Threads :
                    /\ SendsExecute(t) /\ op[t] = "execute" /\ h'[t] = c
                    /\ inq'[c][Len(inq'[c])] = Request("execute", cell'[t], code'[t])
        /\ \A t \in Threads :
             /\ pc[t] = "exec_pre_read" => pc'[t] \in {"exec_pre_read", "exec_read", "idle"}
             /\ pc[t] = "exec_read" => pc'[t] \in {"exec_read", "exec_rec_read", "idle"}
             /\ pc[t] = "exec_rec_read" => pc'[t] \in {"exec_rec_read", "idle"}
             /\ (pc[t] = "exec_rec_read" /\ pc'[t] = "idle") =>
                  /\ ret'.op = "execute" /\ ret'.recov = 1
                  /\ inq' = inq]_vars

\* an execute has returned the made-up Response after its respawn succeeded:
\* the new child runs, has passed the handshake and was given nothing to do
C35_Witness ==
  /\ ret.op = "execute" /\ ret.recov = 1 /\ ret.res.status = "error"
  /\ process # None /\ hsk[process] = "ok" /\ cstate[process] = "up"
  /\ inq[process] = <<>> /\ outq[process] = <<>> /\ ccount[process] = 0

\* the run-all of thread t goes on to execute a cell in this step: req'[t]
\* holds the cell and the Responses collected so far
Picks(t) == RunAllSteps(t) /\ req'[t].kind = "run-all"

\* C36 (as claimed): one run-all executes each cell at most once and in the
\* order of the document, whatever add, move and delete requests are served
\* meanwhile: the cell it goes on to execute is none of those it has a
\* Response for, and in the list it stands after each of them that is still
\* there.
C36_RunAllOnceInOrder ==
  [][\A t \in Threads :
       Picks(t) =>
         \A k \in 1..Len(req'[t].results) :
           /\ req'[t].results[k].cell_id # req'[t].cell_id
           /\ (req'[t].shared /\ Find(cellobj', Cells', req'[t].results[k].cell_id) # 0) =>
                Find(cellobj', Cells', req'[t].results[k].cell_id)
                  < Find(cellobj', Cells', req'[t].cell_id)]_vars


\* the kernel is serving thread u: its execute or reset record is with the
\* child, or its restart is ending and replacing the child
Serving(u) == pc[u] \in {"exec_read", "reset_read", "restart_wait", "restart_read"}

\* C37 (as claimed): the kernel executions of one run-all are contiguous:
\* while a run-all that has executed a cell is on its way to execute its
\* next one, the kernel serves no execute, reset or restart of another
\* request.
C37_RunAllContiguous ==
  \A t, u \in Threads :
    ( /\ t # u
      /\ req[t].kind = "run-all" /\ Len(req[t].results) >= 1
      /\ pc[t] = "acquire" ) => ~Serving(u)


\* C38 (as claimed): the Responses of executions of one cell are written into
\* it in the order the kernel made them: a handler does not write its
\* Response into a cell while another handler still holds a Response with
\* other outputs or another execution_count that the kernel made earlier for
\* the same cell (which, written later, would be what the cell keeps).
C38_WriteBacksInKernelOrder ==
  [][\A t, u \in Threads :
       ( /\ t # u
         /\ WritesBack(u) /\ Target(u) \in Range(Cells)
         /\ req[t].kind \in {"execute", "run-all"}
         /\ res[t] # NoResult /\ res[t].status # "raised"
         /\ Target(t) = Target(u)
         /\ \/ res[t].execution_count # res[u].execution_count
            \/ Outputs(res[t]) # Outputs(res[u]) ) =>
         res[t].seq > res[u].seq]_vars


\* C39 (as claimed): whenever is_alive() reports alive, in any state and
\* whatever calls are under way in other threads, the child self.process
\* refers to has completed the startup handshake: its kernel_ready record
\* was read.
C39_AliveMeansReady == IsAlive => hsk[process] = "ok"


\* a step of thread t inside the supervisor: it takes the lock of the
\* operation it called, or goes on from where it stands in it
SupStep(t) ==
  \/ StartBegin(t) \/ StartRead(t)
  \/ StopBegin(t) \/ StopWait(t)
  \/ RestartBegin(t) \/ RestartWait(t) \/ RestartRead(t)
  \/ ResetBegin(t) \/ ResetSpawnRead(t) \/ ResetRead(t)
  \/ ExecBegin(t) \/ ExecBeginFail(t) \/ ExecPreRead(t) \/ ExecRead(t) \/ ExecRecRead(t)

\* a thread that can go on does (the interpreter schedules every runnable
\* thread, and wait(timeout) runs out), and a child that runs prints its
\* first line and a line for each record it has got
Fairness ==
  /\ \A t \in Threads : WF_vars(SupStep(t))
  /\ \A c \in Children : WF_vars(ChildBoot(c)) /\ WF_vars(ChildServe(c))

\* the supervisor under arbitrary callers, with threads and children that go on
LiveSpec == Init /\ [][Next]_vars /\ Fairness

\* C40: if every child prints its first line and a line for each record, or
\* exits, every call of start, stop, restart, reset and execute returns and
\* the caller no longer holds the lock, also the execute that calls start()
\* while it holds the lock; no interleaving of callers leaves a call waiting
\* for ever.
C40_CallsReturn ==
  \A t \in Threads : (pc[t] # "idle") ~> (pc[t] = "idle" /\ lock.owner # t)

\* an execute that found no child, called start() under the lock and sent
\* its record to the new child, has returned while the other thread waits for
\* the lock, and the lock is free
C40_Witness ==
  /\ ret.op = "execute" /\ ret.lazy # None /\ ret.res.by = ret.lazy
  /\ pc[ret.t] = "idle" /\ lock = Free
  /\ \E u \in Threads : pc[u] = "acquire"

====
